---- MODULE Spec2Model ----
(***************************************************************************)
(* Model of the GitHub upload service of src/main.py: the JSON content     *)
(* normaliser (process_json_content), the folder mapping                   *)
(* (get_folder_name) and the two upload handlers (upload_file_to_github,   *)
(* upload_file_simple) talking to a remote contents store.                 *)
(*                                                                         *)
(* Strings that the code inspects character by character (the source name) *)
(* are sequences of one-character strings.  JSON values are tagged         *)
(* records.  Uploaded bytes are either empty, bytes that do not parse, or  *)
(* the text of a JSON value in some layout.                                *)
(***************************************************************************)
EXTENDS Integers, Sequences, FiniteSets, TLC

\* Longest source name drawn for the normaliser's inputs.
MaxNameLen == 3

(***************************************************************************)
(* JSON values, as json.loads builds them.                                 *)
(***************************************************************************)
Str(s) == [t |-> "str", s |-> s]
Num(n) == [t |-> "num", n |-> n]
Bool(b) == [t |-> "bool", b |-> b]
Null == [t |-> "null"]
Dict(f) == [t |-> "dict", f |-> f]
List(e) == [t |-> "list", e |-> e]

\* isinstance(v, dict), isinstance(v, list), isinstance(v, str)
IsDict(v) == v.t = "dict"
IsList(v) == v.t = "list"
IsStr(v) == v.t = "str"

\* Python truth value of a JSON value, as tested by `if name_value:`.
Truthy(v) ==
  CASE v.t = "str" -> Len(v.s) > 0
    [] v.t = "num" -> v.n # 0
    [] v.t = "bool" -> v.b
    [] v.t = "null" -> FALSE
    [] v.t = "dict" -> DOMAIN v.f # {}
    [] v.t = "list" -> Len(v.e) > 0

\* The characters the pattern [\\/*?:"<>|] matches.
IllegalChars == {"\\", "/", "*", "?", ":", "\"", "<", ">", "|"}

\* Characters str.strip() removes from both ends.
Whitespace == {" ", "\t"}

\* A lone surrogate: json.loads accepts its escape, UTF-8 cannot encode it.
Surrogate == "U+D800"

\* Mutant of re_sub: only the first match is dropped (count=1).
RECURSIVE re_sub_First(_)
re_sub_First(s) ==
  IF s = <<>> THEN <<>>
  ELSE IF Head(s) \in IllegalChars THEN Tail(s)
       ELSE <<Head(s)>> \o re_sub_First(Tail(s))

\* re.sub(r'[\\/*?:"<>|]', '', s): scan left to right, drop each match.
RECURSIVE re_sub(_)
re_sub(s) ==
  IF s = <<>> THEN <<>>
  ELSE IF Head(s) \in IllegalChars THEN re_sub(Tail(s))
       ELSE <<Head(s)>> \o re_sub(Tail(s))

RECURSIVE lstrip(_)
lstrip(s) ==
  IF s # <<>> /\ Head(s) \in Whitespace THEN lstrip(Tail(s)) ELSE s

RECURSIVE rstrip(_)
rstrip(s) ==
  IF s # <<>> /\ s[Len(s)] \in Whitespace
  THEN rstrip(SubSeq(s, 1, Len(s) - 1)) ELSE s

\* str.strip()
strip(s) == rstrip(lstrip(s))

(***************************************************************************)
(* Uploaded bytes and the JSON codec.                                      *)
(***************************************************************************)
EmptyBytes == [b |-> "empty"]
Garbage == [b |-> "garbage"]
JsonText(v, fmt) == [b |-> "json", v |-> v, fmt |-> fmt]

\* `not file_content`
IsEmptyBytes(c) == c.b = "empty"

\* json.loads: the parsed value, or JSONDecodeError.
json_loads(c) ==
  IF c.b = "json" THEN [ok |-> TRUE, v |-> c.v] ELSE [ok |-> FALSE]

\* Whether str.encode('utf-8') succeeds on every string of the value.
RECURSIVE Encodable(_)
Encodable(v) ==
  CASE v.t = "str" -> \A i \in 1..Len(v.s) : v.s[i] # Surrogate
    [] v.t = "dict" -> \A k \in DOMAIN v.f : Encodable(v.f[k])
    [] v.t = "list" -> \A i \in 1..Len(v.e) : Encodable(v.e[i])
    [] OTHER -> TRUE

\* json.dumps(v, ensure_ascii=False, indent=2).encode('utf-8')
json_dumps(v) ==
  IF Encodable(v) THEN [ok |-> TRUE, c |-> JsonText(v, "indent2")]
  ELSE [ok |-> FALSE]

(***************************************************************************)
(* process_json_content                                                    *)
(***************************************************************************)
Raise(msg) == [ok |-> FALSE, err |-> msg]

\* Mutant of Classify: sourceName is probed first.
Classify_SourceFirst(obj, missing) ==
  IF "sourceName" \in DOMAIN obj.f
  THEN [ok |-> TRUE, file_type |-> "subscription_source",
        name_field |-> "sourceName", name_value |-> obj.f["sourceName"]]
  ELSE IF "bookSourceName" \in DOMAIN obj.f
  THEN [ok |-> TRUE, file_type |-> "book_source",
        name_field |-> "bookSourceName", name_value |-> obj.f["bookSourceName"]]
  ELSE Raise(missing)

\* The probe of one object for the name field: bookSourceName first.
Classify(obj, missing) ==
  IF "bookSourceName" \in DOMAIN obj.f
  THEN [ok |-> TRUE, file_type |-> "book_source",
        name_field |-> "bookSourceName", name_value |-> obj.f["bookSourceName"]]
  ELSE IF "sourceName" \in DOMAIN obj.f
  THEN [ok |-> TRUE, file_type |-> "subscription_source",
        name_field |-> "sourceName", name_value |-> obj.f["sourceName"]]
  ELSE Raise(missing)

\* Lines 39-79: the type, the name and the array to publish.
Shape(file_json) ==
  IF IsDict(file_json) THEN
    LET c == Classify(file_json, "process_error: no name field in object")
    IN IF c.ok THEN c @@ [processed_json |-> List(<<file_json>>)] ELSE c
  ELSE IF IsList(file_json) THEN
    IF Len(file_json.e) = 0 THEN Raise("process_error: array is empty")
    ELSE IF IsDict(file_json.e[1]) THEN
      LET c == Classify(file_json.e[1], "process_error: no name field in array")
      IN IF c.ok THEN c @@ [processed_json |-> file_json] ELSE c
    ELSE Raise("process_error: array element is not an object")
  ELSE Raise("process_error: bad JSON shape")

\* Lines 81-84: the name is cleaned only when it is truthy; re.sub on a
\* value that is not a string raises TypeError.
Sanitize(name_value) ==
  IF ~Truthy(name_value) THEN [ok |-> TRUE, name_value |-> name_value]
  ELSE IF ~IsStr(name_value) THEN Raise("process_error: TypeError")
  ELSE [ok |-> TRUE, name_value |-> Str(strip(re_sub(name_value.s)))]

process_json_content(file_content) ==
  LET parsed == json_loads(file_content) IN
  IF ~parsed.ok THEN Raise("not valid JSON")
  ELSE
    LET sh == Shape(parsed.v) IN
    IF ~sh.ok THEN sh
    ELSE
      LET nm == Sanitize(sh.name_value) IN
      IF ~nm.ok THEN nm
      ELSE
        LET out == json_dumps(sh.processed_json) IN
        IF ~out.ok THEN Raise("process_error: UnicodeEncodeError")
        ELSE [ok |-> TRUE, content |-> out.c, file_type |-> sh.file_type,
              name_field |-> sh.name_field, name_value |-> nm.name_value]

\* Mutant of get_folder_name: the second type string is misspelt, so
\* subscription sources fall through to the default.
get_folder_name_Typo(file_type) ==
  IF file_type = "book_source" THEN "book-sources"
  ELSE IF file_type = "subscription-source" THEN "subscription-sources"
  ELSE "others"

\* get_folder_name
get_folder_name(file_type) ==
  IF file_type = "book_source" THEN "book-sources"
  ELSE IF file_type = "subscription_source" THEN "subscription-sources"
  ELSE "others"

(***************************************************************************)
(* upload_file_to_github, up to the existence check (lines 116-144).       *)
(***************************************************************************)
HTTPException(status_code, detail) ==
  [exc |-> "HTTPException", status_code |-> status_code, detail |-> detail]
ValueError(msg) == [exc |-> "ValueError", msg |-> msg]
OtherError(msg) == [exc |-> "Exception", msg |-> msg]

\* Mutant of Except: the last clause (except Exception) is missing.
Except_NoCatchAll(e) ==
  IF e.exc = "ValueError" THEN HTTPException(400, e.msg)
  ELSE e

\* Lines 175-180: what the handler's except clauses make of an exception
\* raised inside its try block.
Except(e) ==
  IF e.exc = "ValueError" THEN HTTPException(400, e.msg)
  ELSE IF e.exc = "HTTPException" THEN e
  ELSE HTTPException(500, <<"internal server error", e.msg>>)

Returned(value) == [kind |-> "return", value |-> value]
Raised(e) == [kind |-> "raise", e |-> e]

\* f"{folder_name}/{name_value}.json"
FilePath(file_type, name_value) ==
  <<get_folder_name(file_type), "/">> \o name_value.s \o <<".json">>

\* Mutant of NameMissing: the name is tested against None only.
NameMissing_IsNone(name_value) == name_value = Null

\* `not name_value` (line 126)
NameMissing(name_value) == ~Truthy(name_value)

\* Lines 118-132: either the exception raised before any outbound call, or
\* the path and the bytes to publish.
Prepare(file_content) ==
  IF IsEmptyBytes(file_content)
  THEN [ok |-> FALSE, e |-> HTTPException(400, "file content is empty")]
  ELSE
    LET p == process_json_content(file_content) IN
    IF ~p.ok THEN [ok |-> FALSE, e |-> ValueError(p.err)]
    ELSE IF NameMissing(p.name_value)
    THEN [ok |-> FALSE, e |-> HTTPException(400, "cannot extract name from JSON")]
    ELSE [ok |-> TRUE, file_path |-> FilePath(p.file_type, p.name_value),
          processed_content |-> p.content, file_type |-> p.file_type,
          name_value |-> p.name_value]

(***************************************************************************)
(* The remote contents store (GitHub contents API), as the service uses    *)
(* it.  store maps a path to the version (sha) of the file there, 0 when   *)
(* no file is there.                                                       *)
(***************************************************************************)
NoFile == 0

\* GET /repos/{repo}/contents/{path}, answered from the store.
GetAnswer(st, path) ==
  IF st[path] # NoFile
  THEN [status_code |-> 200, parses |-> TRUE, json |-> [sha |-> st[path]]]
  ELSE [status_code |-> 404, parses |-> TRUE, json |-> [message |-> "Not Found"]]

\* Answers a read can get that do not come from the file's state: a refusal,
\* a 200 whose body is a directory listing and so has no sha, and a 200 whose
\* body is not JSON.
GetFaults ==
  { [status_code |-> 403, parses |-> TRUE, json |-> [message |-> "Forbidden"]],
    [status_code |-> 200, parses |-> TRUE, json |-> [listing |-> TRUE]],
    [status_code |-> 200, parses |-> FALSE, json |-> [none |-> TRUE]] }

\* PUT /repos/{repo}/contents/{path}: create without sha when no file is
\* there, update with the current sha, refuse otherwise.
PutAnswer(st, path, body) ==
  IF st[path] = NoFile /\ "sha" \notin DOMAIN body
  THEN [status_code |-> 201, parses |-> TRUE, json |-> [content |-> "created"]]
  ELSE IF st[path] # NoFile /\ "sha" \in DOMAIN body /\ body.sha = st[path]
  THEN [status_code |-> 200, parses |-> TRUE, json |-> [content |-> "updated"]]
  ELSE IF "sha" \notin DOMAIN body
  THEN [status_code |-> 422, parses |-> TRUE, json |-> [message |-> "sha wasn't supplied"]]
  ELSE [status_code |-> 409, parses |-> TRUE, json |-> [message |-> "sha does not match"]]

\* The store after the PUT.
PutEffect(st, path, body) ==
  IF PutAnswer(st, path, body).status_code \in {200, 201}
  THEN [st EXCEPT ![path] = @ + 1] ELSE st

\* Refusals of a write that leave the store alone: bad credentials with a
\* JSON error body, and a gateway error whose body is not JSON.
PutFaults ==
  { [status_code |-> 401, parses |-> TRUE, json |-> [message |-> "Bad credentials"]],
    [status_code |-> 502, parses |-> FALSE, json |-> [none |-> TRUE]] }

(***************************************************************************)
(* upload_file_to_github after the existence check (lines 146-173).        *)
(***************************************************************************)
\* base64.b64encode(processed_content).decode('utf-8')
b64encode(c) == [b64 |-> c]

\* Mutant of BuildData: the sha of the existing file is never sent.
BuildData_NoSha(processed_content, response) ==
  [ok |-> TRUE,
   data |-> [message |-> "commit message", content |-> b64encode(processed_content),
             branch |-> "main"]]

\* Lines 147-156: the body of the write; the sha is added only after a 200.
\* response.json() raises a JSONDecodeError (a ValueError) when the body does
\* not parse, and file_info["sha"] raises when the body has no sha.
BuildData(processed_content, response) ==
  LET data == [message |-> "commit message", content |-> b64encode(processed_content),
               branch |-> "main"]
  IN IF response.status_code = 200
     THEN IF ~response.parses
          THEN [ok |-> FALSE, e |-> ValueError("JSONDecodeError")]
          ELSE IF "sha" \in DOMAIN response.json
          THEN [ok |-> TRUE, data |-> data @@ [sha |-> response.json.sha]]
          ELSE [ok |-> FALSE, e |-> OtherError("sha")]
     ELSE [ok |-> TRUE, data |-> data]

\* Mutant of IsUploadOk: only 201 counts as success.
IsUploadOk_Only201(status_code) == status_code = 201

\* The status codes line 161 takes for success.
IsUploadOk(status_code) == status_code \in {201, 200}

\* Lines 161-173: the path on 200/201, else HTTPException(400) carrying the
\* remote message or, when the body does not parse, the status code.
Conclude(file_path, upload_response) ==
  IF IsUploadOk(upload_response.status_code) THEN Returned(file_path)
  ELSE Raised(HTTPException(400,
         IF upload_response.parses
         THEN <<"upload failed",
                IF "message" \in DOMAIN upload_response.json
                THEN upload_response.json.message ELSE "unknown error">>
         ELSE <<"upload failed, status code", upload_response.status_code>>))

\* upload_file_simple (lines 193-213): the envelope around the result of
\* upload_file_to_github; only HTTPException is caught.
upload_file_simple(res) ==
  IF res.kind = "return"
  THEN Returned([message |-> "ok", data |-> res.value])
  ELSE IF res.e.exc = "HTTPException"
  THEN Returned([message |-> "error", data |-> <<"upload failed", res.e.detail>>])
  ELSE res

\* What the endpoint answers, given the result of upload_file_to_github.
Reply(ep, res) == IF ep = "/upload-simple" THEN upload_file_simple(res) ELSE res

(***************************************************************************)
(* Inputs.                                                                 *)
(***************************************************************************)
\* A JSON object with the given (possibly absent) fields.
Absent == [t |-> "absent"]
MkDict(bsn, sn, other) ==
  Dict([k \in {x \in {"bookSourceName", "sourceName", "other"} :
                 \/ x = "bookSourceName" /\ bsn # Absent
                 \/ x = "sourceName" /\ sn # Absent
                 \/ x = "other" /\ other # Absent}
          |-> IF k = "bookSourceName" THEN bsn
              ELSE IF k = "sourceName" THEN sn ELSE other])

A == Str(<<"a">>)
B == Str(<<"b">>)

\* The two concurrent requests of the service model.
Requests == {"r1", "r2"}
Endpoints == {"/upload", "/upload-simple"}

\* Uploaded files of the service model: every way of being rejected, and
\* accepted files of both kinds, two of them publishing to the same path.
MainContents ==
  { EmptyBytes, Garbage,
    JsonText(Num(5), "compact"),
    JsonText(List(<<>>), "compact"),
    JsonText(List(<<Num(5)>>), "compact"),
    JsonText(MkDict(Absent, Absent, Num(1)), "compact"),
    JsonText(List(<<MkDict(Absent, Absent, Num(1))>>), "compact"),
    JsonText(MkDict(Str(<<" ", "/">>), Absent, Absent), "compact"),
    JsonText(MkDict(Null, A, Absent), "compact"),
    JsonText(MkDict(Num(5), Absent, Absent), "compact"),
    JsonText(MkDict(A, Absent, Str(<<Surrogate>>)), "compact"),
    JsonText(MkDict(A, Absent, Absent), "indent2"),
    JsonText(List(<<MkDict(Str(<<"/", "a", " ">>), B, Absent), Num(5)>>), "compact"),
    JsonText(MkDict(Absent, Str(<<"a", ":">>), Num(1)), "compact") }

\* The paths those files publish to.
Paths == { Prepare(c).file_path : c \in {x \in MainContents : Prepare(x).ok} }

(***************************************************************************)
(* State.                                                                  *)
(***************************************************************************)
VARIABLES
  pc,               \* per request: "idle", "reading", "writing", "done"
  endpoint,         \* per request: the endpoint it was sent to
  file_content,     \* per request: the uploaded bytes
  file_path,        \* per request: the computed path
  processed_content,\* per request: the bytes to publish
  response,         \* per request: the answer to the existence check
  data,             \* per request: the body of the write
  upload_response,  \* per request: the answer to the write
  result,           \* per request: what upload_file_to_github returned or raised
  reply,            \* per request: what the endpoint answered
  calls,            \* per request: the parse and the outbound calls, in order
  store,            \* the remote store: path -> version, NoFile when absent
  raw,              \* normaliser run: the input bytes
  processed,        \* normaliser run: the result of process_json_content
  npc               \* normaliser run: "ready", "done", then "accepted" or "rejected"

vars == <<pc, endpoint, file_content, file_path, processed_content, response,
          data, upload_response, result, reply, calls, store, raw, processed, npc>>

reqvars == <<pc, endpoint, file_content, file_path, processed_content, response,
             data, upload_response, result, reply, calls, store>>
normvars == <<raw, processed, npc>>

None == [none |-> TRUE]

Init ==
  /\ pc = [r \in Requests |-> "idle"]
  /\ endpoint = [r \in Requests |-> None]
  /\ file_content = [r \in Requests |-> None]
  /\ file_path = [r \in Requests |-> None]
  /\ processed_content = [r \in Requests |-> None]
  /\ response = [r \in Requests |-> None]
  /\ data = [r \in Requests |-> None]
  /\ upload_response = [r \in Requests |-> None]
  /\ result = [r \in Requests |-> None]
  /\ reply = [r \in Requests |-> None]
  /\ calls = [r \in Requests |-> <<>>]
  /\ store \in [Paths -> {NoFile, 1}]
  /\ raw = None
  /\ processed = None
  /\ npc = "off"

\* The request ends: upload_file_to_github returned or raised res.
Finish(r, ep, res) ==
  /\ result' = [result EXCEPT ![r] = res]
  /\ reply' = [reply EXCEPT ![r] = Reply(ep, res)]
  /\ pc' = [pc EXCEPT ![r] = "done"]

\* A request arrives whose file is refused before any outbound call
\* (lines 118-127 raise).
Reject(r) ==
  /\ pc[r] = "idle"
  /\ \E ep \in Endpoints, c \in MainContents :
       LET p == Prepare(c) IN
       /\ ~p.ok
       /\ endpoint' = [endpoint EXCEPT ![r] = ep]
       /\ file_content' = [file_content EXCEPT ![r] = c]
       /\ calls' = [calls EXCEPT ![r] = IF IsEmptyBytes(c) THEN <<>> ELSE <<"parse">>]
       /\ Finish(r, ep, Raised(Except(p.e)))
  /\ UNCHANGED <<file_path, processed_content, response, data, upload_response,
                 store, normvars>>

\* A request arrives, its file is normalised and the existence check is sent
\* (lines 118-144, up to the call of requests.get).
Accept(r) ==
  /\ pc[r] = "idle"
  /\ \E ep \in Endpoints, c \in MainContents :
       LET p == Prepare(c) IN
       /\ p.ok
       /\ endpoint' = [endpoint EXCEPT ![r] = ep]
       /\ file_content' = [file_content EXCEPT ![r] = c]
       /\ file_path' = [file_path EXCEPT ![r] = p.file_path]
       /\ processed_content' = [processed_content EXCEPT ![r] = p.processed_content]
  /\ calls' = [calls EXCEPT ![r] = <<"parse", "read">>]
  /\ pc' = [pc EXCEPT ![r] = "reading"]
  /\ UNCHANGED <<response, data, upload_response, result, reply, store, normvars>>

\* requests.get returns; the body of the write is built and the write is
\* sent, or file_info["sha"] raises (lines 144-159).
ReadReturns(r) ==
  /\ pc[r] = "reading"
  /\ \E resp \in {GetAnswer(store, file_path[r])} \cup GetFaults :
       LET b == BuildData(processed_content[r], resp) IN
       /\ response' = [response EXCEPT ![r] = resp]
       /\ IF b.ok
          THEN /\ data' = [data EXCEPT ![r] = b.data]
               /\ calls' = [calls EXCEPT ![r] = @ \o <<"read_returned", "write">>]
               /\ pc' = [pc EXCEPT ![r] = "writing"]
               /\ UNCHANGED <<result, reply>>
          ELSE /\ calls' = [calls EXCEPT ![r] = @ \o <<"read_returned">>]
               /\ Finish(r, endpoint[r], Raised(Except(b.e)))
               /\ UNCHANGED data
  /\ UNCHANGED <<endpoint, file_content, file_path, processed_content,
                 upload_response, store, normvars>>

\* Mutant of ReadRaises: the existence check is sent again after it raised.
ReadRaises_Retry(r) ==
  /\ pc[r] = "reading"
  /\ calls' = [calls EXCEPT ![r] = @ \o <<"read">>]
  /\ UNCHANGED <<pc, endpoint, file_content, file_path, processed_content, response,
                 data, upload_response, result, reply, store, normvars>>

\* requests.get raises (no connection): the handler's last except clause.
ReadRaises(r) ==
  /\ pc[r] = "reading"
  /\ Finish(r, endpoint[r], Raised(Except(OtherError("ConnectionError"))))
  /\ UNCHANGED <<endpoint, file_content, file_path, processed_content, response,
                 data, upload_response, calls, store, normvars>>

\* Mutant of WriteReturns: a refused write makes the handler check again.
WriteReturns_Retry(r) ==
  /\ pc[r] = "writing"
  /\ LET ans == PutAnswer(store, file_path[r], data[r]) IN
       /\ upload_response' = [upload_response EXCEPT ![r] = ans]
       /\ store' = PutEffect(store, file_path[r], data[r])
       /\ IF IsUploadOk(ans.status_code)
          THEN /\ Finish(r, endpoint[r], Conclude(file_path[r], ans))
               /\ calls' = [calls EXCEPT ![r] = @ \o <<"write_returned">>]
          ELSE /\ pc' = [pc EXCEPT ![r] = "reading"]
               /\ calls' = [calls EXCEPT ![r] = @ \o <<"write_returned", "read">>]
               /\ UNCHANGED <<result, reply>>
  /\ UNCHANGED <<endpoint, file_content, file_path, processed_content, response,
                 data, normvars>>

\* requests.put returns: the store has applied or refused the write, and
\* the handler concludes (lines 159-173).
WriteReturns(r) ==
  /\ pc[r] = "writing"
  /\ \E fault \in PutFaults \cup {None} :
       LET ans == IF fault = None THEN PutAnswer(store, file_path[r], data[r])
                  ELSE fault IN
       /\ upload_response' = [upload_response EXCEPT ![r] = ans]
       /\ store' = IF fault = None THEN PutEffect(store, file_path[r], data[r])
                    ELSE store
       /\ Finish(r, endpoint[r], Conclude(file_path[r], ans))
  /\ calls' = [calls EXCEPT ![r] = @ \o <<"write_returned">>]
  /\ UNCHANGED <<endpoint, file_content, file_path, processed_content, response,
                 data, normvars>>

\* requests.put raises: the connection broke, before or after the store
\* applied the write.
WriteRaises(r) ==
  /\ pc[r] = "writing"
  /\ store' \in {store, PutEffect(store, file_path[r], data[r])}
  /\ Finish(r, endpoint[r], Raised(Except(OtherError("ConnectionError"))))
  /\ UNCHANGED <<endpoint, file_content, file_path, processed_content, response,
                 data, upload_response, calls, normvars>>

Next ==
  \E r \in Requests :
    \/ Reject(r)
    \/ Accept(r)
    \/ ReadReturns(r)
    \/ ReadRaises(r)
    \/ WriteReturns(r)
    \/ WriteRaises(r)

Spec == Init /\ [][Next]_vars

(***************************************************************************)
(* The normaliser on its own: process_json_content applied to one input.   *)
(***************************************************************************)
NameAlphabet == IllegalChars \cup Whitespace \cup {"a"}

\* Values of the name field that are not clean strings.
OddNames ==
  { Num(0), Num(5), Null, Bool(TRUE), Bool(FALSE), List(<<>>), List(<<Num(1)>>),
    Dict(<<>>), Str(<<"a", Surrogate>>) }

\* The documents that carry a given value in the name field: a book source,
\* a subscription source, and an array whose first element is a book source.
NamedValues(n) ==
  { MkDict(n, Absent, Absent), MkDict(Absent, n, Num(1)),
    List(<<MkDict(n, Absent, Absent), Num(5)>>) }

\* Parsed documents of every other shape.
OtherValues ==
  UNION { NamedValues(n) : n \in OddNames }
    \cup { MkDict(x, y, o) : x \in {A, B, Absent}, y \in {A, B, Absent},
                             o \in {Absent, Num(1), Str(<<Surrogate>>)} }
    \cup { List(<<MkDict(x, y, Absent), MkDict(y, x, Absent)>>) :
             x \in {A, Absent}, y \in {B, Absent} }
    \cup { Num(5), A, Null, List(<<>>), List(<<Num(5)>>),
           List(<<Null, MkDict(A, Absent, Absent)>>),
           List(<<List(<<MkDict(A, Absent, Absent)>>)>>) }

OtherContents ==
  { EmptyBytes, Garbage } \cup { JsonText(v, "compact") : v \in OtherValues }
    \cup { JsonText(MkDict(x, y, Absent), "indent2") : x \in {A, Absent}, y \in {B, Absent} }

NormInit ==
  /\ pc = [r \in Requests |-> "idle"]
  /\ endpoint = [r \in Requests |-> None]
  /\ file_content = [r \in Requests |-> None]
  /\ file_path = [r \in Requests |-> None]
  /\ processed_content = [r \in Requests |-> None]
  /\ response = [r \in Requests |-> None]
  /\ data = [r \in Requests |-> None]
  /\ upload_response = [r \in Requests |-> None]
  /\ result = [r \in Requests |-> None]
  /\ reply = [r \in Requests |-> None]
  /\ calls = [r \in Requests |-> <<>>]
  /\ store = [p \in Paths |-> NoFile]
  /\ \/ \E n \in 0..MaxNameLen : \E s \in [1..n -> NameAlphabet] :
          \E v \in NamedValues(Str(s)) : raw = JsonText(v, "compact")
     \/ raw \in OtherContents
  /\ processed = None
  /\ npc = "ready"

\* process_json_content(raw) runs to its return or its raise.
Normalize ==
  /\ npc = "ready"
  /\ processed' = process_json_content(raw)
  /\ npc' = "done"
  /\ UNCHANGED <<raw, reqvars>>

\* The caller's test of the returned name (lines 126-127).
CheckName ==
  /\ npc = "done"
  /\ processed.ok
  /\ npc' = IF NameMissing(processed.name_value) THEN "rejected" ELSE "accepted"
  /\ UNCHANGED <<raw, processed, reqvars>>

NormNext == Normalize \/ CheckName

NormSpec == NormInit /\ [][NormNext]_vars

(***************************************************************************)
(* Properties.  The helpers below state what the specification asks of the *)
(* service, independently of how the code computes it.                     *)
(***************************************************************************)
\* The outbound life of one request, in order.
CallOrder == <<"parse", "read", "read_returned", "write", "write_returned">>

IsPrefix(s, t) == Len(s) <= Len(t) /\ s = SubSeq(t, 1, Len(s))

Min(S) == CHOOSE x \in S : \A y \in S : x <= y
Max(S) == CHOOSE x \in S : \A y \in S : x >= y

IsLegalChar(c) == c \notin IllegalChars

\* A name with the nine characters removed and then trimmed: what is left of
\* the legal characters between the first and the last that is not blank.
CleanName(s) ==
  LET kept == SelectSeq(s, IsLegalChar)
      solid == {i \in 1..Len(kept) : kept[i] \notin Whitespace}
  IN IF solid = {} THEN <<>> ELSE SubSeq(kept, Min(solid), Max(solid))

\* The object that decides kind and name: the object itself, or the first
\* element of the array.
HasRelevant(v) ==
  \/ v.t = "dict"
  \/ v.t = "list" /\ Len(v.e) > 0 /\ v.e[1].t = "dict"
Relevant(v) == IF v.t = "dict" THEN v ELSE v.e[1]

HasNameField(o) == {"bookSourceName", "sourceName"} \cap DOMAIN o.f # {}
NameOf(o) ==
  IF "bookSourceName" \in DOMAIN o.f THEN o.f["bookSourceName"] ELSE o.f["sourceName"]

\* The invalid uploads the specification lists.
InvalidContent(c) ==
  \/ c.b # "json"
  \/ c.v.t \notin {"dict", "list"}
  \/ c.v.t = "list" /\ Len(c.v.e) = 0
  \/ c.v.t = "list" /\ Len(c.v.e) > 0 /\ c.v.e[1].t # "dict"
  \/ HasRelevant(c.v) /\ ~HasNameField(Relevant(c.v))
  \/ /\ HasRelevant(c.v) /\ HasNameField(Relevant(c.v))
     /\ NameOf(Relevant(c.v)).t = "str"
     /\ CleanName(NameOf(Relevant(c.v)).s) = <<>>

Arrived(r) == pc[r] # "idle"
WriteIssued(r) == pc[r] \in {"writing", "done"} /\ data[r] # None
ReadAnswered(r) == response[r] # None
WriteAnswered(r) == upload_response[r] # None
Failed400(res) ==
  res.kind = "raise" /\ res.e.exc = "HTTPException" /\ res.e.status_code = 400

\* C1: a write carries a sha exactly when the existence check answered 200,
\* the sha sent is the one that answer held, and after any other read status
\* the write is still issued, without a sha.
C1_ShaIffRead200 ==
  \A r \in Requests :
    /\ WriteIssued(r) =>
         /\ ReadAnswered(r)
         /\ ("sha" \in DOMAIN data[r]) <=> (response[r].status_code = 200)
         /\ "sha" \in DOMAIN data[r] => data[r].sha = response[r].json.sha
    /\ (ReadAnswered(r) /\ response[r].status_code # 200) =>
         /\ WriteIssued(r)
         /\ "sha" \notin DOMAIN data[r]
         /\ IsPrefix(<<"parse", "read", "read_returned", "write">>, calls[r])

C1_Witness ==
  \E r, q \in Requests :
    /\ WriteIssued(r) /\ "sha" \in DOMAIN data[r] /\ data[r].sha = 1
    /\ WriteIssued(q) /\ response[q].status_code = 403

\* C2: an upload with invalid content fails with HTTP 400 and issues no
\* outbound read and no outbound write.
C2_InvalidNeverPublished ==
  \A r \in Requests :
    (Arrived(r) /\ InvalidContent(file_content[r])) =>
      /\ pc[r] = "done"
      /\ Failed400(result[r])
      /\ \A i \in 1..Len(calls[r]) : calls[r][i] = "parse"
      /\ response[r] = None /\ data[r] = None /\ upload_response[r] = None

C2_Witness ==
  \E r \in Requests :
    /\ pc[r] = "done"
    /\ file_content[r].b = "json" /\ HasRelevant(file_content[r].v)
    /\ HasNameField(Relevant(file_content[r].v))
    /\ NameOf(Relevant(file_content[r].v)).t = "str"
    /\ Len(NameOf(Relevant(file_content[r].v)).s) > 0
    /\ InvalidContent(file_content[r])
    /\ Failed400(result[r])

\* C3: each request parses, reads and writes at most once and in that order,
\* the write only after the read returned, and once the request has ended
\* (in failure or not) it issues no further call.
C3_OneReadOneWriteInOrder ==
  /\ [](\A r \in Requests : IsPrefix(calls[r], CallOrder))
  /\ [][\A r \in Requests :
          result[r] # None => calls'[r] = calls[r] /\ result'[r] = result[r]]_vars

C3_Witness ==
  \E r, q \in Requests :
    /\ calls[r] = CallOrder /\ result[r] # None /\ result[r].kind = "raise"
    /\ calls[q] = <<"parse", "read">> /\ result[q] # None /\ result[q].kind = "raise"

\* C4: a /upload request succeeds exactly when its write was answered 200 or
\* 201, the result then is the computed path, and any other write status
\* makes it fail with HTTP 400.
C4_SuccessIffWriteAccepted ==
  \A r \in Requests :
    (pc[r] = "done" /\ endpoint[r] = "/upload") =>
      /\ (reply[r].kind = "return") <=>
           (WriteAnswered(r) /\ upload_response[r].status_code \in {200, 201})
      /\ reply[r].kind = "return" => reply[r].value = file_path[r]
      /\ (WriteAnswered(r) /\ upload_response[r].status_code \notin {200, 201}) =>
           Failed400(reply[r])

C4_Witness ==
  \E r, q \in Requests :
    /\ pc[r] = "done" /\ endpoint[r] = "/upload" /\ WriteAnswered(r)
    /\ upload_response[r].status_code = 200 /\ reply[r].kind = "return"
    /\ pc[q] = "done" /\ endpoint[q] = "/upload" /\ WriteAnswered(q)
    /\ upload_response[q].status_code = 502 /\ reply[q].kind = "raise"

\* C5: /upload-simple always returns an envelope whose message is "ok" or
\* "error": "ok" with the path as data exactly when the upload succeeded,
\* "error" after every failure, the internal ones included.
C5_SimpleAlwaysEnvelope ==
  \A r \in Requests :
    (pc[r] = "done" /\ endpoint[r] = "/upload-simple") =>
      /\ reply[r].kind = "return"
      /\ reply[r].value.message \in {"ok", "error"}
      /\ (reply[r].value.message = "ok") <=>
           (WriteAnswered(r) /\ upload_response[r].status_code \in {200, 201})
      /\ reply[r].value.message = "ok" => reply[r].value.data = file_path[r]

C5_Witness ==
  \E r, q \in Requests :
    /\ pc[r] = "done" /\ endpoint[r] = "/upload-simple"
    /\ result[r].kind = "raise" /\ result[r].e.status_code = 500
    /\ reply[r].kind = "return" /\ reply[r].value.message = "error"
    /\ pc[q] = "done" /\ endpoint[q] = "/upload-simple"
    /\ reply[q].kind = "return" /\ reply[q].value.message = "ok"

\* Two requests that both read "no file" at the same path and both sent a
\* create, each answered by the store.
Raced(r, q) ==
  /\ r # q
  /\ WriteAnswered(r) /\ WriteAnswered(q)
  /\ file_path[r] = file_path[q]
  /\ response[r].status_code = 404 /\ response[q].status_code = 404
  /\ "sha" \notin DOMAIN data[r] /\ "sha" \notin DOMAIN data[q]
  /\ upload_response[r] \notin PutFaults /\ upload_response[q] \notin PutFaults

IsConflict(resp) == resp.status_code \in {409, 422}

\* C6: when two uploads to one path race, both reading "no file" and both
\* sending a create, the store accepts exactly one and answers the other with
\* a conflict; a request answered with a conflict has ended in failure with
\* its one read and one write, and issues nothing more.
C6_RaceOneWinsLoserFails ==
  /\ \A r, q \in Requests :
       Raced(r, q) =>
         \/ upload_response[r].status_code = 201 /\ IsConflict(upload_response[q])
         \/ upload_response[q].status_code = 201 /\ IsConflict(upload_response[r])
  /\ \A r \in Requests :
       (WriteAnswered(r) /\ IsConflict(upload_response[r])) =>
         /\ pc[r] = "done"
         /\ Failed400(result[r])
         /\ calls[r] = CallOrder

C6_Witness ==
  \E r, q \in Requests :
    /\ Raced(r, q)
    /\ upload_response[r].status_code = 201
    /\ upload_response[q].status_code = 422
    /\ result[r].kind = "return" /\ result[q].kind = "raise"

\* The folder the specification gives each kind of document.
FolderOf(o) ==
  IF "bookSourceName" \in DOMAIN o.f THEN "book-sources" ELSE "subscription-sources"

\* C7: the path of every request that reaches the publisher is
\* <folder>/<displayName>.json with the folder of its kind, it is the path
\* returned on success, and the folder "others" is never used.
C7_PathFromKindAndName ==
  \A r \in Requests :
    file_path[r] # None =>
      LET o == Relevant(file_content[r].v) IN
      /\ file_path[r] = <<FolderOf(o), "/">> \o CleanName(NameOf(o).s) \o <<".json">>
      /\ file_path[r][1] # "others"
      /\ (result[r] # None /\ result[r].kind = "return") => result[r].value = file_path[r]

C7_Witness ==
  \E r \in Requests :
    /\ result[r] # None /\ result[r].kind = "return"
    /\ result[r].value = <<"subscription-sources", "/", "a", ".json">>

(***************************************************************************)
(* Properties of the normaliser, checked under NormSpec.                   *)
(***************************************************************************)
Returns == npc # "ready" /\ processed.ok

\* C8: an accepted single object is published as the one-element array
\* holding it and an accepted array unchanged; the kind is BookSource whenever
\* the relevant object has bookSourceName (also next to sourceName) and
\* SubscriptionSource only when it has sourceName and no bookSourceName.
C8_WrapAndClassify ==
  Returns =>
    LET v == raw.v
        out == json_loads(processed.content)
        o == Relevant(v)
    IN /\ out.ok
       /\ v.t = "dict" => out.v = List(<<v>>)
       /\ v.t = "list" => out.v = v
       /\ "bookSourceName" \in DOMAIN o.f => processed.file_type = "book_source"
       /\ (processed.file_type = "subscription_source") <=>
            ("sourceName" \in DOMAIN o.f /\ "bookSourceName" \notin DOMAIN o.f)
       /\ processed.file_type \in {"book_source", "subscription_source"}

C8_Witness ==
  /\ Returns
  /\ raw.v.t = "list" /\ Len(raw.v.e) = 2
  /\ {"bookSourceName", "sourceName"} \subseteq DOMAIN raw.v.e[1].f
  /\ processed.file_type = "book_source"
  /\ processed.content.v = raw.v

NonEmptyArray(c) == c.b = "json" /\ c.v.t = "list" /\ Len(c.v.e) >= 1
NonEmptyName(n) == n.t = "str" /\ Len(n.s) >= 1

\* C9 as stated: whenever process_json_content returns, the content is a
\* non-empty array and the displayName is non-empty.
C9_ReturnedNameNonEmpty ==
  Returns => NonEmptyArray(processed.content) /\ NonEmptyName(processed.name_value)

\* C9 amended: whenever process_json_content returns, the content is a
\* non-empty array; the displayName it returns may be empty, and then the
\* caller's name check rejects it, so every displayName that passes the check
\* is a non-empty string.
C9_NameNonEmptyAfterCheck ==
  Returns =>
    /\ NonEmptyArray(processed.content)
    /\ npc = "accepted" => NonEmptyName(processed.name_value)
    /\ npc = "rejected" => ~NonEmptyName(processed.name_value)

C9_Witness ==
  /\ Returns /\ npc = "rejected"
  /\ processed.name_value = Str(<<>>)
  /\ NonEmptyName(NameOf(Relevant(raw.v)))

\* C10: the displayName of a name string is that string with every one of
\* the nine characters removed and then trimmed, so it holds none of the nine
\* and neither starts nor ends with whitespace.
C10_NameSanitized ==
  (Returns /\ NameOf(Relevant(raw.v)).t = "str") =>
    LET d == processed.name_value IN
    /\ d.t = "str"
    /\ d.s = CleanName(NameOf(Relevant(raw.v)).s)
    /\ \A i \in 1..Len(d.s) : d.s[i] \notin IllegalChars
    /\ Len(d.s) > 0 => d.s[1] \notin Whitespace /\ d.s[Len(d.s)] \notin Whitespace

C10_Witness ==
  /\ Returns
  /\ LET n == NameOf(Relevant(raw.v)) IN
       /\ n.t = "str" /\ Len(n.s) = 3
       /\ n.s[1] \in IllegalChars /\ n.s[2] \in Whitespace /\ n.s[3] = "a"
  /\ processed.name_value = Str(<<"a">>)

====
